---- MODULE Spec2Model ----
(***************************************************************************)
(* Model of the /live pipeline of src/main.py: text normalisation, field   *)
(* extraction, segmentation of a blob into match records, candidate        *)
(* selection, de-duplication and the HTTP responses of live_matches.       *)
(*                                                                         *)
(* A Python str is modelled as a sequence of one-character strings, so     *)
(* that indexing, slicing and comparison of characters are available.      *)
(***************************************************************************)
EXTENDS Integers, Sequences, FiniteSets, TLC

\* ------------------------------------------------------------------------
\* Characters
\* ------------------------------------------------------------------------

UpperCase == <<"A", "B", "C", "D", "E", "F", "G", "H", "I", "J", "K", "L", "M",
               "N", "O", "P", "Q", "R", "S", "T", "U", "V", "W", "X", "Y", "Z">>

LowerCase == <<"a", "b", "c", "d", "e", "f", "g", "h", "i", "j", "k", "l", "m",
               "n", "o", "p", "q", "r", "s", "t", "u", "v", "w", "x", "y", "z">>

Digits == {"0", "1", "2", "3", "4", "5", "6", "7", "8", "9"}

\* the characters re's \s and str.strip() treat as whitespace
Whitespace == {" ", "\t", "\n"}

Punctuation == {"/", "-", "(", ")", ".", ",", "_"}


\* Python's None, a value that is no str
None == <<"None">>

\* [A-Z]
Capitals == {UpperCase[i] : i \in 1..26}

\* [A-Z] under re.IGNORECASE
Letters == Capitals \cup {LowerCase[i] : i \in 1..26}

IsUpper(c) == c \in Capitals

IsLetter(c) == c \in Letters

Char == Letters \cup Digits \cup Whitespace \cup Punctuation

IsDigit(c) == c \in Digits

IsSpace(c) == c \in Whitespace

\* re's \w
IsWord(c) == IsLetter(c) \/ IsDigit(c) \/ c = "_"

\* the lower-case letter of every capital
LowerOf == [c \in Capitals |->
               LowerCase[CHOOSE i \in 1..26 : UpperCase[i] = c]]

ToLower(c) == IF c \in DOMAIN LowerOf THEN LowerOf[c] ELSE c

\* str.lower()
lower(s) == [i \in 1..Len(s) |-> ToLower(s[i])]

\* Python truthiness of an Optional[str]: None and "" are false
Truthy(s) == s # None /\ s # <<>>

\* ------------------------------------------------------------------------
\* str helpers
\* ------------------------------------------------------------------------

SetMin(S) == CHOOSE i \in S : \A j \in S : i <= j

\* pat occurs in s at index i
OccursAt(s, pat, i) ==
    /\ i >= 1
    /\ i + Len(pat) - 1 <= Len(s)
    /\ \A k \in 1..Len(pat) : s[i + k - 1] = pat[k]

\* str.find: index of the first occurrence of pat in s, 0 when there is none
find(s, pat) ==
    LET at == {i \in 1..(Len(s) - Len(pat) + 1) :
                     (pat # <<>> => s[i] = pat[1]) /\ OccursAt(s, pat, i)}
    IN  IF at = {} THEN 0 ELSE SetMin(at)

\* pat in s
contains(s, pat) == find(s, pat) # 0

\* str.strip()
strip(s) ==
    LET n == Len(s)
        ink == {i \in 1..n : ~IsSpace(s[i])}
    IN  IF ink = {} THEN <<>>
        ELSE LET first == CHOOSE i \in ink : \A j \in 1..(i - 1) : IsSpace(s[j])
                 last  == CHOOSE i \in ink : \A j \in (i + 1)..n : IsSpace(s[j])
             IN  SubSeq(s, first, last)

\* re.sub(r"\s+", " ", s).strip(): every run of whitespace becomes one space,
\* then the ends are trimmed
clean_text(text) ==
    LET s == IF text = None THEN <<>> ELSE text    \* (s or "")
        n == Len(s)
        \* a whitespace character stays, as a space, when it is the first of a
        \* run that has text on both sides
        Stays(i) == /\ i > 1
                    /\ ~IsSpace(s[i - 1])
                    /\ \E j \in (i + 1)..n : ~IsSpace(s[j])
        marked == [i \in 1..n |-> IF ~IsSpace(s[i]) THEN s[i]
                                  ELSE IF Stays(i) THEN " " ELSE ""]
    IN  SelectSeq(marked, LAMBDA c : c # "")

\* str.replace(old, new) for a non-empty old: every occurrence, scanning left
\* to right, an occurrence starting where the previous one ended at the earliest
RECURSIVE replace(_, _, _)
replace(s, old, new) ==
    LET i == find(s, old)
    IN  IF i = 0 THEN s
        ELSE SubSeq(s, 1, i - 1) \o new
               \o replace(SubSeq(s, i + Len(old), Len(s)), old, new)

\* str.split(sep): the pieces between the occurrences of sep, empty ones included
RECURSIVE split(_, _)
split(s, sep) ==
    LET i == find(s, sep)
    IN  IF i = 0 THEN <<s>>
        ELSE <<SubSeq(s, 1, i - 1)>> \o split(SubSeq(s, i + Len(sep), Len(s)), sep)

\* ------------------------------------------------------------------------
\* Regular expressions of the source, matched as re matches them
\* ------------------------------------------------------------------------

\* length of the longest run of characters of the class that starts at index i
RunLen(s, i, class) ==
    CHOOSE k \in 0..(Len(s) - i + 1) :
        /\ \A j \in i..(i + k - 1) : s[j] \in class
        /\ (i + k > Len(s) \/ s[i + k] \notin class)

IsWordAt(s, i) == i >= 1 /\ i <= Len(s) /\ IsWord(s[i])

\* re's \b between index i - 1 and index i
Boundary(s, i) == IsWordAt(s, i - 1) # IsWordAt(s, i)

\* re.search(r"\b(vs|v)\b", p, re.IGNORECASE)
is_title(p) ==
    LET lp == lower(p)
    IN  \E i \in 1..Len(p) : \E w \in {<<"v", "s">>, <<"v">>} :
            /\ OccursAt(lp, w, i)
            /\ Boundary(p, i)
            /\ Boundary(p, i + Len(w))

\* r"\(?\s*(\d{1,2}(?:\.\d)?)\s*(ov|ovs|over|overs)\s*\)?" with group 1 starting
\* at index d: group 1, greedy alternatives first, or None. Every unit
\* alternative starts with "ov" and what follows it is optional.
OversGroupAt(t, d) ==
    LET Ok(nd, frac) ==
            LET e == d + nd + (IF frac THEN 2 ELSE 0)
            IN  /\ e - 1 <= Len(t)
                /\ \A j \in d..(d + nd - 1) : IsDigit(t[j])
                /\ frac => (t[d + nd] = "." /\ IsDigit(t[d + nd + 1]))
                /\ OccursAt(lower(t), <<"o", "v">>, e + RunLen(t, e, Whitespace))
    IN  IF Ok(2, TRUE) THEN SubSeq(t, d, d + 3)
        ELSE IF Ok(2, FALSE) THEN SubSeq(t, d, d + 1)
        ELSE IF Ok(1, TRUE) THEN SubSeq(t, d, d + 2)
        ELSE IF Ok(1, FALSE) THEN SubSeq(t, d, d)
        ELSE None

\* overs of _extract_score_and_overs: group 1 of the leftmost match, " ov" appended
extract_overs(t) ==
    LET ds == {d \in 1..Len(t) : OversGroupAt(t, d) # None}
    IN  IF ds = {} THEN <<>> ELSE OversGroupAt(t, SetMin(ds)) \o <<" ", "o", "v">>

\* (\d{1,3}\s*(?:/|-)\s*\d{1,2})\b at index g: the group with its whitespace
\* removed, or None
SlashScoreAt(t, g) ==
    LET r  == RunLen(t, g, Digits)
        p  == g + r + RunLen(t, g + r, Whitespace)
        q  == p + 1 + RunLen(t, p + 1, Whitespace)
        w  == RunLen(t, q, Digits)
    IN  IF /\ r >= 1 /\ r <= 3
           /\ p <= Len(t) /\ t[p] \in {"/", "-"}
           /\ w >= 1 /\ w <= 2
           /\ Boundary(t, q + w)
        THEN SubSeq(t, g, g + r - 1) \o <<t[p]>> \o SubSeq(t, q, q + w - 1)
        ELSE None

\* the optional team group ([A-Z]{2,6}\s*)? at index s: a run of 2 to 6 letters
\* of the class, all of it, and the whitespace after it; 0 when it does not match
TeamLen(t, s, class) ==
    LET u == RunLen(t, s, class)
    IN  IF u >= 2 /\ u <= 6 THEN u ELSE 0

\* r"\b([A-Z]{2,6}\s*)?(\d{1,3}\s*(?:/|-)\s*\d{1,2})\b" matched at index s:
\* f"{team} {scr}".strip(), or None
ScoreMatchAt(t, s) ==
    LET u == TeamLen(t, s, Capitals)
        g == s + u + RunLen(t, s + u, Whitespace)
    IN  IF ~Boundary(t, s) THEN None
        ELSE IF u > 0 /\ SlashScoreAt(t, g) # None
             THEN SubSeq(t, s, s + u - 1) \o <<" ">> \o SlashScoreAt(t, g)
        ELSE SlashScoreAt(t, s)

\* (\d{1,3})\s*(all\s*out)\b at index g, re.IGNORECASE: group 2, or None
AllOutAt(t, g) ==
    LET r == RunLen(t, g, Digits)
        a == g + r + RunLen(t, g + r, Whitespace)
        o == a + 3 + RunLen(t, a + 3, Whitespace)
    IN  IF /\ r >= 1 /\ r <= 3
           /\ OccursAt(lower(t), <<"a", "l", "l">>, a)
           /\ OccursAt(lower(t), <<"o", "u", "t">>, o)
           /\ Boundary(t, o + 3)
        THEN SubSeq(t, g, g + r - 1)
        ELSE None

AllOutWords == <<" ", "a", "l", "l", " ", "o", "u", "t">>

\* r"\b([A-Z]{2,6}\s*)?(\d{1,3})\s*(all\s*out)\b" with re.IGNORECASE matched at
\* index s: f"{team} {runs} all out".strip(), or None
AllOutMatchAt(t, s) ==
    LET u == TeamLen(t, s, Letters)
        g == s + u + RunLen(t, s + u, Whitespace)
    IN  IF ~Boundary(t, s) THEN None
        ELSE IF u > 0 /\ AllOutAt(t, g) # None
             THEN SubSeq(t, s, s + u - 1) \o <<" ">> \o AllOutAt(t, g) \o AllOutWords
        ELSE IF AllOutAt(t, s) # None THEN AllOutAt(t, s) \o AllOutWords
        ELSE None

\* score of _extract_score_and_overs: the leftmost match of the first pattern,
\* and of the second when the first matches nowhere; "" when neither does
extract_score(t) ==
    LET ss == {s \in 1..Len(t) : ScoreMatchAt(t, s) # None}
        as == {s \in 1..Len(t) : AllOutMatchAt(t, s) # None}
    IN  IF ss # {} THEN ScoreMatchAt(t, SetMin(ss))
        ELSE IF as # {} THEN AllOutMatchAt(t, SetMin(as))
        ELSE <<>>

extract_score_and_overs(text) ==
    LET t == clean_text(text)
    IN  [score |-> extract_score(t), overs |-> extract_overs(t)]

\* r"\(?\s*" + re.escape(overs) + r"\s*\)?" with re.IGNORECASE matched at index
\* p: the index after the match, 0 when there is no match
OversMatchEnd(s, overs, p) ==
    LET p1 == IF s[p] = "(" THEN p + 1 ELSE p
        p2 == p1 + RunLen(s, p1, Whitespace)
        p3 == p2 + Len(overs)
        p4 == p3 + RunLen(s, p3, Whitespace)
    IN  IF ~OccursAt(lower(s), lower(overs), p2) THEN 0
        ELSE IF p4 <= Len(s) /\ s[p4] = ")" THEN p4 + 1
        ELSE p4

\* re.sub of that pattern by "": every match, scanning left to right
RECURSIVE sub_overs(_, _)
sub_overs(s, overs) ==
    LET ps == {p \in 1..Len(s) : OversMatchEnd(s, overs, p) # 0}
    IN  IF ps = {} THEN s
        ELSE LET p == SetMin(ps)
             IN  SubSeq(s, 1, p - 1)
                   \o sub_overs(SubSeq(s, OversMatchEnd(s, overs, p), Len(s)), overs)

\* str.replace(old, new, 1): the first occurrence only
replace_first(s, old, new) ==
    LET i == find(s, old)
    IN  IF i = 0 THEN s
        ELSE SubSeq(s, 1, i - 1) \o new \o SubSeq(s, i + Len(old), Len(s))

\* variant of derive_status that removes only the first occurrence of the
\* score; C10_EveryOccurrenceRemoved tells the two apart
status_first_only(chunk, score, overs) ==
    LET s1 == IF Truthy(score) THEN strip(replace_first(chunk, score, <<>>)) ELSE chunk
        s2 == IF Truthy(overs) THEN strip(sub_overs(s1, overs)) ELSE s1
    IN  clean_text(s2)

\* the status of a detail fragment: the chunk without its score and its overs
derive_status(chunk, score, overs) ==
    LET s1 == IF Truthy(score) THEN strip(replace(chunk, score, <<>>)) ELSE chunk
        s2 == IF Truthy(overs) THEN strip(sub_overs(s1, overs)) ELSE s1
    IN  clean_text(s2)

\* ------------------------------------------------------------------------
\* _split_live_blob_to_matches
\* ------------------------------------------------------------------------

JunkWords == << <<"M", "A", "T", "C", "H", "E", "S">>,
                <<"A", "L", "L">>,
                <<"P", "r", "e", "v", "i", "e", "w">>,
                <<"P", "R", "E", "V", "I", "E", "W">> >>

\* variant of JunkReplacement that deletes a junk word instead of blanking it;
\* C8_NormalizerIdempotent tells the two apart
EmptyReplacement == <<>>

\* what a junk word is replaced by
JunkReplacement == <<" ">>

\* for jw in [...]: t = t.replace(jw, " ")
remove_junk(t) ==
    replace(replace(replace(replace(t, JunkWords[1], JunkReplacement),
                            JunkWords[2], JunkReplacement),
                    JunkWords[3], JunkReplacement),
            JunkWords[4], JunkReplacement)

\* the text the fragments are cut from: cleaned, junk words removed, cleaned again
normalize_blob(text) == clean_text(remove_junk(clean_text(text)))

Separator == <<" ", "-", " ">>

\* [p.strip() for p in t.split(" - ") if p.strip()]
blob_parts(t) ==
    LET ps == split(t, Separator)
    IN  SelectSeq([i \in 1..Len(ps) |-> strip(ps[i])], LAMBDA p : p # <<>>)

\* variant of pending_title in which a pending title is kept, not overwritten;
\* C1_MostRecentTitle tells the two apart
first_pending_title(current_match, p) ==
    IF Truthy(current_match) THEN current_match ELSE clean_text(p)

\* the pending title after a title fragment p
pending_title(current_match, p) == clean_text(p)

\* the record a detail fragment p gives with the pending title
make_record(current_match, p) ==
    LET chunk == clean_text(p)
        e     == extract_score_and_overs(chunk)
    IN  [match  |-> current_match,
         score  |-> e.score,
         overs  |-> e.overs,
         status |-> derive_status(chunk, e.score, e.overs)]

\* variant of record_key that compares case-sensitively; C3_StableDedup tells
\* the two apart
record_key_exact(item) == <<item.match, item.score, item.overs, item.status>>

\* the lower-cased identity key of a record
record_key(item) ==
    <<lower(item.match), lower(item.score), lower(item.overs), lower(item.status)>>

\* variant of cleaned_item that gives None for a field that was not found;
\* C9_RecordsWellFormed tells the two apart
cleaned_item_nulls(item) ==
    LET OrNone(s) == IF clean_text(s) = <<>> THEN None ELSE clean_text(s)
    IN  [match  |-> clean_text(item.match),
         score  |-> OrNone(item.score),
         overs  |-> OrNone(item.overs),
         status |-> OrNone(item.status)]

\* the record the per-blob pass keeps for an item: each field through _clean_text
cleaned_item(item) ==
    [match  |-> clean_text(item.match),
     score  |-> clean_text(item.score),
     overs  |-> clean_text(item.overs),
     status |-> clean_text(item.status)]

\* the "remove duplicates and tiny noise" loop from item i on
RECURSIVE split_dedupe_from(_, _, _, _)
split_dedupe_from(items, i, seen, cleaned) ==
    IF i > Len(items) THEN cleaned
    ELSE LET it == cleaned_item(items[i])
         IN  IF ~Truthy(it.match) THEN split_dedupe_from(items, i + 1, seen, cleaned)
             ELSE IF record_key(it) \in seen
                  THEN split_dedupe_from(items, i + 1, seen, cleaned)
             ELSE split_dedupe_from(items, i + 1, seen \cup {record_key(it)},
                                    Append(cleaned, it))

split_dedupe(items) == split_dedupe_from(items, 1, {}, <<>>)

\* ------------------------------------------------------------------------
\* live_matches
\* ------------------------------------------------------------------------

\* soup.find_all(["div", "a"], limit=6000)
NodeLimit == 6000

\* "keep medium blocks only"
MaxBlobLen == 420

\* uniq_blobs[:10]
MaxBlobs == 10

\* final[:30]
MaxItems == 30

Take(s, n) == SubSeq(s, 1, IF Len(s) < n THEN Len(s) ELSE n)

has_vs(txt) ==
    \/ contains(lower(txt), <<" ", "v", "s", " ">>)
    \/ contains(lower(txt), <<" ", "v", " ">>)

Hints == { <<"o", "v", "e", "r", "s">>, <<"o", "v">>, <<"w", "o", "n", " ", "b", "y">>,
           <<"n", "e", "e", "d">>, <<"t", "a", "r", "g", "e", "t">>,
           <<"i", "n", "n", "i", "n", "g", "s">>, <<"t", "r", "a", "i", "l">>,
           <<"l", "e", "a", "d">>, <<"/">> }

has_hint(txt) == \E k \in Hints : contains(lower(txt), k)

\* variant of qualifies that asks for a versus marker or a hint, not both;
\* C4_NeverSelected tells the two apart
qualifies_either(txt) ==
    /\ txt # <<>>
    /\ ~(Len(txt) > MaxBlobLen)
    /\ (has_vs(txt) \/ has_hint(txt))

\* whether the candidate loop appends the cleaned text of a node to blobs
qualifies(txt) ==
    /\ txt # <<>>
    /\ ~(Len(txt) > MaxBlobLen)
    /\ has_vs(txt) /\ has_hint(txt)

\* the "de-dup blobs" loop from blob i on
RECURSIVE uniq_from(_, _, _, _)
uniq_from(bs, i, seen, uniq) ==
    IF i > Len(bs) THEN uniq
    ELSE IF lower(bs[i]) \in seen THEN uniq_from(bs, i + 1, seen, uniq)
    ELSE uniq_from(bs, i + 1, seen \cup {lower(bs[i])}, Append(uniq, bs[i]))

dedupe_blobs(bs) == uniq_from(bs, 1, {}, <<>>)

\* the "final de-dup" loop from item i on
RECURSIVE final_dedupe_from(_, _, _, _)
final_dedupe_from(items, i, seen2, final) ==
    IF i > Len(items) THEN final
    ELSE IF record_key(items[i]) \in seen2
         THEN final_dedupe_from(items, i + 1, seen2, final)
    ELSE final_dedupe_from(items, i + 1, seen2 \cup {record_key(items[i])},
                           Append(final, items[i]))

final_dedupe(items) == final_dedupe_from(items, 1, {}, <<>>)

\* ------------------------------------------------------------------------
\* The upstream listing page: the texts of its div and a elements
\* ------------------------------------------------------------------------

\* the example of the docstring of live_matches: 'SL vs ENG - SL 145/6 (20 ov) Innings Break'
NodeSpecExample ==
    <<"S", "L", " ", "v", "s", " ", "E", "N", "G", " ", "-", " ", "S", "L", " ", "1", "4", "5", "/", "6", " ", "(", "2", "0", " ", "o", "v", ")", " ", "I", "n", "n", "i", "n", "g", "s", " ", "B", "r", "e", "a", "k">>

\* the same match in capitals behind a junk word: 'MATCHES SL VS ENG - SL 145/6 (20 OV) INNINGS BREAK'
NodeUpperCase ==
    <<"M", "A", "T", "C", "H", "E", "S", " ", "S", "L", " ", "V", "S", " ", "E", "N", "G", " ", "-", " ", "S", "L", " ", "1", "4", "5", "/", "6", " ", "(", "2", "0", " ", "O", "V", ")", " ", "I", "N", "N", "I", "N", "G", "S", " ", "B", "R", "E", "A", "K">>

\* two titles, then a detail fragment naming its score twice: 'C v D - A VS B - 1/2 need 1/2'
NodeTwoTitles ==
    <<"C", " ", "v", " ", "D", " ", "-", " ", "A", " ", "V", "S", " ", "B", " ", "-", " ", "1", "/", "2", " ", "n", "e", "e", "d", " ", "1", "/", "2">>

\* a pair, an orphan, the pair again in another case, a trailing title: 'A vs B - 1/2 need 1/2 - lead 5 - a VS b - 1/2 need 1/2 - C v D'
NodeOrphans ==
    <<"A", " ", "v", "s", " ", "B", " ", "-", " ", "1", "/", "2", " ", "n", "e", "e", "d", " ", "1", "/", "2", " ", "-", " ", "l", "e", "a", "d", " ", "5", " ", "-", " ", "a", " ", "V", "S", " ", "b", " ", "-", " ", "1", "/", "2", " ", "n", "e", "e", "d", " ", "1", "/", "2", " ", "-", " ", "C", " ", "v", " ", "D">>

\* a title and nothing else: 'A vs B /'
NodeTitleOnly ==
    <<"A", " ", "v", "s", " ", "B", " ", "/">>

\* a hint without a versus marker: 'Innings Break'
NodeNoVersus ==
    <<"I", "n", "n", "i", "n", "g", "s", " ", "B", "r", "e", "a", "k">>

\* a versus marker without a hint: 'A vs B'
NodeNoHint ==
    <<"A", " ", "v", "s", " ", "B">>

\* uncleaned text with a junk word: ' \tA  vs B  - SL 210 all out ALL - c V d - 9/1 '
NodeRaw ==
    <<" ", "\t", "A", " ", " ", "v", "s", " ", "B", " ", " ", "-", " ", "S", "L", " ", "2", "1", "0", " ", "a", "l", "l", " ", "o", "u", "t", " ", "A", "L", "L", " ", "-", " ", "c", " ", "V", " ", "d", " ", "-", " ", "9", "/", "1", " ">>

\* whitespace only: '  '
NodeBlank ==
    <<" ", " ">>

\* a title behind padding
PaddedTail == <<" ", "A", " ", "v", "s", " ", "B", " ", "/">>

\* a text of exactly n characters ending in PaddedTail
Padded(n) == [i \in 1..(n - Len(PaddedTail)) |-> "x"] \o PaddedTail

\* one character more than the candidate loop keeps
NodeTooLong == Padded(MaxBlobLen + 1)

\* the longest text the candidate loop keeps
NodeLongest == Padded(MaxBlobLen)

NodeTexts == {NodeSpecExample, NodeUpperCase, NodeTwoTitles, NodeOrphans, NodeTitleOnly,
              NodeNoVersus, NodeNoHint, NodeRaw, NodeBlank}

\* how many elements the pages of the model have at most
MaxNodes == 2

RECURSIVE SeqsUpTo(_, _)
SeqsUpTo(S, n) ==
    IF n = 0 THEN {<<>>}
    ELSE LET shorter == SeqsUpTo(S, n - 1)
         IN  shorter \cup {Append(s, x) : s \in {t \in shorter : Len(t) = n - 1}, x \in S}

\* the pages with a text at the length limit
LongPages == { <<NodeTooLong>>, <<NodeLongest>>,
               <<NodeTooLong, NodeSpecExample>>, <<NodeSpecExample, NodeLongest>>,
               <<NodeTooLong, NodeNoVersus>> }

Pages == SeqsUpTo(NodeTexts, MaxNodes) \cup LongPages

\* the status codes of an upstream answer that is not a success
FailureStatuses == {403, 404, 503}

\* ------------------------------------------------------------------------
\* The responses of live_matches
\* ------------------------------------------------------------------------

NoResponse == [code |-> 0, body |-> "none", keys |-> {}, status |-> 0, items |-> <<>>]

\* status != 200
upstream_error_response(st) ==
    [code |-> 502, body |-> "object", keys |-> {"error", "status"},
     status |-> st, items |-> <<>>]

\* except Exception as e
internal_error_response ==
    [code |-> 500, body |-> "object", keys |-> {"error", "details"},
     status |-> 0, items |-> <<>>]

\* variant of no_blobs_response that answers an empty array;
\* C5_NoRecordsIs502 tells the two apart
empty_array_response(st) ==
    [code |-> 200, body |-> "array", keys |-> {}, status |-> 0, items |-> <<>>]

\* not uniq_blobs
no_blobs_response(st) ==
    [code |-> 502, body |-> "object", keys |-> {"error", "status", "title"},
     status |-> st, items |-> <<>>]

\* not final
parsed_zero_response(st) ==
    [code |-> 502, body |-> "object", keys |-> {"error", "status", "title", "sample"},
     status |-> st, items |-> <<>>]

\* jsonify(final[:30])
matches_response(final_items) ==
    [code |-> 200, body |-> "array", keys |-> {}, status |-> 0,
     items |-> Take(final_items, MaxItems)]

\* ------------------------------------------------------------------------
\* One request to /live
\* ------------------------------------------------------------------------

VARIABLES
    pc,             \* where the handler is
    fetches,        \* how many times _fetch_html was called
    status,         \* the status code _fetch_html returned, 0 before
    candidates,     \* the texts of the elements find_all returned
    nodeIdx,        \* the element the candidate loop is at
    blobs,
    uniq_blobs,
    blobIdx,        \* the blob the parse loop is at
    parts,          \* the fragments of that blob
    partIdx,        \* the fragment the segmenter is at
    current_match,
    results,        \* of the blob being segmented
    cleaned,        \* what _split_live_blob_to_matches returned for it
    all_items,
    final,
    response,
    text,           \* a text handed to the normalizer on its own
    once,           \* that text normalized
    twice           \* and normalized again

vars == <<pc, fetches, status, candidates, nodeIdx, blobs, uniq_blobs, blobIdx,
          parts, partIdx, current_match, results, cleaned, all_items, final,
          response, text, once, twice>>

normVars == <<text, once, twice>>

selectVars == <<candidates, nodeIdx, blobs, uniq_blobs>>

segmentVars == <<blobIdx, parts, partIdx, current_match, results, cleaned, all_items>>

\* no normalization done yet
NotYet == [clean |-> None, blob |-> None]

RequestInit ==
    /\ pc = "fetch"
    /\ fetches = 0
    /\ status = 0
    /\ candidates = <<>>
    /\ nodeIdx = 1
    /\ blobs = <<>>
    /\ uniq_blobs = <<>>
    /\ blobIdx = 1
    /\ parts = <<>>
    /\ partIdx = 1
    /\ current_match = None
    /\ results = <<>>
    /\ cleaned = <<>>
    /\ all_items = <<>>
    /\ final = <<>>
    /\ response = NoResponse

Init ==
    /\ RequestInit
    /\ text = <<>>
    /\ once = NotYet
    /\ twice = NotYet

\* _fetch_html returns 200 and the page
FetchOk ==
    /\ pc = "fetch"
    /\ \E page \in Pages : candidates' = Take(page, NodeLimit)
    /\ fetches' = fetches + 1
    /\ status' = 200
    /\ pc' = "select"
    /\ UNCHANGED <<normVars, nodeIdx, blobs, uniq_blobs, segmentVars, final, response>>

\* _fetch_html returns another status
FetchNon200 ==
    /\ pc = "fetch"
    /\ \E st \in FailureStatuses :
          /\ status' = st
          /\ response' = upstream_error_response(st)
    /\ fetches' = fetches + 1
    /\ pc' = "done"
    /\ UNCHANGED <<normVars, selectVars, segmentVars, final>>

\* requests.get raises (connection failure, timeout): the except clause answers
FetchRaises ==
    /\ pc = "fetch"
    /\ fetches' = fetches + 1
    /\ response' = internal_error_response
    /\ pc' = "done"
    /\ UNCHANGED <<normVars, status, selectVars, segmentVars, final>>

\* one turn of the candidate loop, the element's text kept
SelectNode ==
    /\ pc = "select"
    /\ nodeIdx <= Len(candidates)
    /\ qualifies(clean_text(candidates[nodeIdx]))
    /\ blobs' = Append(blobs, clean_text(candidates[nodeIdx]))
    /\ nodeIdx' = nodeIdx + 1
    /\ UNCHANGED <<normVars, pc, fetches, status, candidates, uniq_blobs, segmentVars, final, response>>

\* one turn of the candidate loop, the element passed over
SkipNode ==
    /\ pc = "select"
    /\ nodeIdx <= Len(candidates)
    /\ ~qualifies(clean_text(candidates[nodeIdx]))
    /\ nodeIdx' = nodeIdx + 1
    /\ UNCHANGED <<normVars, pc, fetches, status, candidates, blobs, uniq_blobs, segmentVars, final, response>>

\* the blobs de-duplicated, none left
RespondNoBlobs ==
    /\ pc = "select"
    /\ nodeIdx > Len(candidates)
    /\ dedupe_blobs(blobs) = <<>>
    /\ uniq_blobs' = dedupe_blobs(blobs)
    /\ response' = no_blobs_response(status)
    /\ pc' = "done"
    /\ UNCHANGED <<normVars, fetches, status, candidates, nodeIdx, blobs, segmentVars, final>>

\* the blobs de-duplicated, some left
BeginParse ==
    /\ pc = "select"
    /\ nodeIdx > Len(candidates)
    /\ dedupe_blobs(blobs) # <<>>
    /\ uniq_blobs' = dedupe_blobs(blobs)
    /\ pc' = "parse"
    /\ UNCHANGED <<normVars, fetches, status, candidates, nodeIdx, blobs, segmentVars, final, response>>

\* _split_live_blob_to_matches is entered with the next blob
StartBlob ==
    /\ pc = "parse"
    /\ blobIdx <= Len(Take(uniq_blobs, MaxBlobs))
    /\ parts' = blob_parts(normalize_blob(uniq_blobs[blobIdx]))
    /\ partIdx' = 1
    /\ current_match' = None
    /\ results' = <<>>
    /\ cleaned' = <<>>
    /\ pc' = "segment"
    /\ UNCHANGED <<normVars, fetches, status, selectVars, blobIdx, all_items, final, response>>

\* a fragment with a versus word
TitleFragment ==
    /\ pc = "segment"
    /\ partIdx <= Len(parts)
    /\ is_title(parts[partIdx])
    /\ current_match' = pending_title(current_match, parts[partIdx])
    /\ partIdx' = partIdx + 1
    /\ UNCHANGED <<normVars, pc, fetches, status, selectVars, blobIdx, parts, results, cleaned,
                   all_items, final, response>>

\* another fragment while a title is pending
DetailFragment ==
    /\ pc = "segment"
    /\ partIdx <= Len(parts)
    /\ ~is_title(parts[partIdx])
    /\ Truthy(current_match)
    /\ results' = Append(results, make_record(current_match, parts[partIdx]))
    /\ current_match' = None
    /\ partIdx' = partIdx + 1
    /\ UNCHANGED <<normVars, pc, fetches, status, selectVars, blobIdx, parts, cleaned,
                   all_items, final, response>>

\* variant of OrphanFragment that keeps the orphan as a record without a match;
\* C2_EmitOnlyOnPairing tells the two apart
OrphanFragmentEmits ==
    /\ pc = "segment"
    /\ partIdx <= Len(parts)
    /\ ~is_title(parts[partIdx])
    /\ ~Truthy(current_match)
    /\ results' = Append(results, make_record(<<>>, parts[partIdx]))
    /\ partIdx' = partIdx + 1
    /\ UNCHANGED <<normVars, pc, fetches, status, selectVars, blobIdx, parts, current_match,
                   cleaned, all_items, final, response>>

\* another fragment while no title is pending
OrphanFragment ==
    /\ pc = "segment"
    /\ partIdx <= Len(parts)
    /\ ~is_title(parts[partIdx])
    /\ ~Truthy(current_match)
    /\ partIdx' = partIdx + 1
    /\ UNCHANGED <<normVars, pc, fetches, status, selectVars, blobIdx, parts, current_match,
                   results, cleaned, all_items, final, response>>

\* the fragments are used up: the records are de-duplicated and returned
EndBlob ==
    /\ pc = "segment"
    /\ partIdx > Len(parts)
    /\ cleaned' = split_dedupe(results)
    /\ all_items' = all_items \o split_dedupe(results)
    /\ blobIdx' = blobIdx + 1
    /\ pc' = "parse"
    /\ UNCHANGED <<normVars, fetches, status, selectVars, parts, partIdx, current_match,
                   results, final, response>>

\* the final de-dup, nothing left
RespondParsedZero ==
    /\ pc = "parse"
    /\ blobIdx > Len(Take(uniq_blobs, MaxBlobs))
    /\ final_dedupe(all_items) = <<>>
    /\ final' = final_dedupe(all_items)
    /\ response' = parsed_zero_response(status)
    /\ pc' = "done"
    /\ UNCHANGED <<normVars, fetches, status, selectVars, segmentVars>>

\* the final de-dup, the records answered
RespondMatches ==
    /\ pc = "parse"
    /\ blobIdx > Len(Take(uniq_blobs, MaxBlobs))
    /\ final_dedupe(all_items) # <<>>
    /\ final' = final_dedupe(all_items)
    /\ response' = matches_response(final_dedupe(all_items))
    /\ pc' = "done"
    /\ UNCHANGED <<normVars, fetches, status, selectVars, segmentVars>>

Next ==
    \/ FetchOk
    \/ FetchNon200
    \/ FetchRaises
    \/ SelectNode
    \/ SkipNode
    \/ RespondNoBlobs
    \/ BeginParse
    \/ StartBlob
    \/ TitleFragment
    \/ DetailFragment
    \/ OrphanFragment
    \/ EndBlob
    \/ RespondParsedZero
    \/ RespondMatches

Spec == Init /\ [][Next]_vars

\* ------------------------------------------------------------------------
\* The normalizer on its own: _clean_text, and the normalization that opens
\* _split_live_blob_to_matches, applied to a text and to their own output
\* ------------------------------------------------------------------------

\* what the texts handed to the normalizer are put together from
Pieces == { <<" ">>,
            <<"\t">>,
            <<"\n">>,
            <<"x">>,
            <<"A", "L">>,
            <<"L">>,
            <<"A", "L", "L">>,
            <<"M", "A", "T", "C", "H", "E", "S">>,
            <<"P", "r", "e", "v", "i", "e", "w">>,
            <<"P", "R", "E", "V", "I", "E", "W">> }

\* how many pieces a text has at most
MaxPieces == 3

RECURSIVE Flatten(_)
Flatten(ps) == IF ps = <<>> THEN <<>> ELSE Head(ps) \o Flatten(Tail(ps))

NormInputs == {Flatten(ps) : ps \in SeqsUpTo(Pieces, MaxPieces)}

\* both normalizations of a text
normalized(t) == [clean |-> clean_text(t), blob |-> normalize_blob(t)]

NormInit ==
    /\ RequestInit
    /\ text \in NormInputs
    /\ once = NotYet
    /\ twice = NotYet

\* the text is normalized
NormalizeOnce ==
    /\ once = NotYet
    /\ once' = normalized(text)
    /\ UNCHANGED <<text, twice>>
    /\ UNCHANGED <<pc, fetches, status, selectVars, segmentVars, final, response>>

\* the result is normalized again
NormalizeTwice ==
    /\ once # NotYet
    /\ twice = NotYet
    /\ twice' = [clean |-> clean_text(once.clean), blob |-> normalize_blob(once.blob)]
    /\ UNCHANGED <<text, once>>
    /\ UNCHANGED <<pc, fetches, status, selectVars, segmentVars, final, response>>

NormNext ==
    \/ NormalizeOnce
    \/ NormalizeTwice

NormSpec == NormInit /\ [][NormNext]_vars

\* ------------------------------------------------------------------------
\* Properties
\* ------------------------------------------------------------------------

Range(s) == {s[i] : i \in 1..Len(s)}

\* the fragments, among the first n, that are no title and come right after one
PairedFragments(ps, n) == {k \in 2..n : ~is_title(ps[k]) /\ is_title(ps[k - 1])}

\* the r-th of them
NthPaired(ps, n, r) ==
    CHOOSE k \in PairedFragments(ps, n) :
        Cardinality({j \in PairedFragments(ps, n) : j <= k}) = r

\* the most recent title fragment before fragment k
LastTitleBefore(ps, k) ==
    ps[CHOOSE j \in 1..(k - 1) :
           is_title(ps[j]) /\ \A i \in (j + 1)..(k - 1) : ~is_title(ps[i])]

TwoTitlesOneDetail(ps) ==
    Len(ps) = 3 /\ is_title(ps[1]) /\ is_title(ps[2]) /\ ~is_title(ps[3])

\* C1: after any number of fragments, the records emitted so far are one per
\* fragment that is no title and follows a title, in order, and the match of
\* each is the most recent title fragment before that fragment; two titles
\* followed by one detail fragment give exactly one record, paired with the
\* second title, and that is what _split_live_blob_to_matches returns.
C1_MostRecentTitle ==
    LET n == partIdx - 1
    IN  /\ Len(results) = Cardinality(PairedFragments(parts, n))
        /\ \A r \in 1..Len(results) :
              results[r].match = LastTitleBefore(parts, NthPaired(parts, n, r))
        /\ (TwoTitlesOneDetail(parts) /\ n = 3) =>
              /\ Len(results) = 1
              /\ results[1].match = parts[2]
              /\ pc # "segment" => (Len(cleaned) = 1 /\ cleaned[1].match = parts[2])

C1_Witness ==
    /\ TwoTitlesOneDetail(parts)
    /\ partIdx = 4
    /\ pc = "parse"
    /\ Len(cleaned) = 1
    /\ cleaned[1].match = parts[2]
    /\ cleaned[1].match # parts[1]

\* C2: a step adds a record only when it handles a fragment that is no title
\* while a title is pending, it adds exactly one and it clears the pending
\* title; a title fragment and a fragment met with no title pending add none;
\* and returning from the blob adds none either (a title still pending at the
\* end is not flushed).
C2_EmitOnlyOnPairing ==
    [][ /\ Len(results') > Len(results) =>
              /\ pc = "segment"
              /\ partIdx <= Len(parts)
              /\ ~is_title(parts[partIdx])
              /\ Truthy(current_match)
              /\ current_match' = None
              /\ Len(results') = Len(results) + 1
        /\ ( /\ pc = "segment"
             /\ partIdx <= Len(parts)
             /\ (is_title(parts[partIdx]) \/ ~Truthy(current_match)) ) =>
              results' = results
        /\ (pc = "segment" /\ partIdx > Len(parts)) =>
              /\ Len(cleaned') <= Len(results)
              /\ Len(all_items') <= Len(all_items) + Len(results)
      ]_vars

C2_Witness ==
    /\ pc = "parse"
    /\ parts # <<>>
    /\ partIdx > Len(parts)
    /\ is_title(parts[Len(parts)])
    /\ Truthy(current_match)
    /\ \E k \in 2..Len(parts) : ~is_title(parts[k]) /\ ~is_title(parts[k - 1])
    /\ Len(results) = 2
    /\ Len(all_items) <= 2

C3_Key(r) == <<lower(r.match), lower(r.score), lower(r.overs), lower(r.status)>>

FirstWithKey(inp, k) ==
    CHOOSE i \in 1..Len(inp) :
        C3_Key(inp[i]) = k /\ \A j \in 1..(i - 1) : C3_Key(inp[j]) # k

\* out holds the first occurrence of every lower-cased key of inp, once, in the
\* order of inp
KeptFirstOccurrences(inp, out) ==
    /\ \A a, b \in 1..Len(out) : a # b => C3_Key(out[a]) # C3_Key(out[b])
    /\ {C3_Key(out[a]) : a \in 1..Len(out)} = {C3_Key(inp[i]) : i \in 1..Len(inp)}
    /\ \A a \in 1..Len(out) : out[a] = inp[FirstWithKey(inp, C3_Key(out[a]))]
    /\ \A a, b \in 1..Len(out) :
          a < b => FirstWithKey(inp, C3_Key(out[a])) < FirstWithKey(inp, C3_Key(out[b]))

\* C3: what the per-blob pass returns for the records of a blob, and what the
\* final pass makes of all the records, is the first occurrence of each
\* lower-cased (match, score, overs, status) key in input order, no key twice,
\* and the pass applied to its own output gives that output.
C3_StableDedup ==
    /\ pc \in {"parse", "done"} =>
          /\ KeptFirstOccurrences(results, cleaned)
          /\ split_dedupe(cleaned) = cleaned
    /\ pc = "done" =>
          /\ KeptFirstOccurrences(all_items, final)
          /\ final_dedupe(final) = final

C3_Witness ==
    /\ pc = "done"
    /\ Len(cleaned) >= 1
    /\ Len(cleaned) < Len(results)
    /\ Len(final) >= 1
    /\ Len(final) < Len(all_items)

C4_HasVersus(txt) ==
    \/ contains(lower(txt), <<" ", "v", "s", " ">>)
    \/ contains(lower(txt), <<" ", "v", " ">>)

C4_Rejected(txt) == Len(txt) > MaxBlobLen \/ ~C4_HasVersus(txt)

\* C4: the cleaned text of an element that is longer than 420 characters, or
\* has neither " vs " nor " v " in its lower-cased form, is in neither blob
\* list; every blob is within the length and has a marker; and the blob the
\* segmenter works on is one of the selected blobs.
C4_NeverSelected ==
    /\ \A i \in 1..Len(candidates) :
          C4_Rejected(clean_text(candidates[i])) =>
              clean_text(candidates[i]) \notin (Range(blobs) \cup Range(uniq_blobs))
    /\ \A b \in Range(blobs) \cup Range(uniq_blobs) : ~C4_Rejected(b)
    /\ pc = "segment" => blobIdx <= Len(uniq_blobs)

C4_Witness ==
    /\ pc = "done"
    /\ nodeIdx > Len(candidates)
    /\ \E i \in 1..Len(candidates) :
          /\ Len(clean_text(candidates[i])) > MaxBlobLen
          /\ C4_HasVersus(clean_text(candidates[i]))
          /\ has_hint(clean_text(candidates[i]))
    /\ \E i \in 1..Len(candidates) :
          /\ ~C4_HasVersus(clean_text(candidates[i]))
          /\ has_hint(clean_text(candidates[i]))
    /\ blobs = <<>>

\* C5: when the page was fetched with status 200 and no element qualifies, or
\* the blobs give no record, the answer is 502, a JSON object with an error
\* field, and no array of records.
C5_NoRecordsIs502 ==
    ( /\ pc = "done"
      /\ status = 200
      /\ \/ \A i \in 1..Len(candidates) : ~qualifies(clean_text(candidates[i]))
         \/ all_items = <<>> ) =>
        /\ response.code = 502
        /\ response.body = "object"
        /\ "error" \in response.keys
        /\ response.items = <<>>

C5_Witness ==
    /\ pc = "done"
    /\ status = 200
    /\ candidates # <<>>
    /\ \A i \in 1..Len(candidates) : ~qualifies(clean_text(candidates[i]))
    /\ response.code = 502
    /\ "error" \in response.keys

\* C6: a failed fetch of the listing page, a status other than 200 or an
\* exception of the fetch, is answered with 502 and the observed status code,
\* and the page is fetched at most once.
C6_UpstreamFailureIs502 ==
    (pc = "done" /\ status # 200) =>
        /\ response.code = 502
        /\ "status" \in response.keys
        /\ response.status = status
        /\ fetches <= 1

NoWhitespaceRuns(s) ==
    /\ \A i \in 1..(Len(s) - 1) : ~(IsSpace(s[i]) /\ IsSpace(s[i + 1]))
    /\ s # <<>> => (~IsSpace(s[1]) /\ ~IsSpace(s[Len(s)]))

\* C8: _clean_text, and _clean_text with the junk words removed as at the start
\* of _split_live_blob_to_matches, give a text without two whitespace
\* characters in a row and without whitespace at its ends, and give the same
\* text again when applied to it.
C8_NormalizerIdempotent ==
    /\ once # NotYet => (NoWhitespaceRuns(once.clean) /\ NoWhitespaceRuns(once.blob))
    /\ twice # NotYet => twice = once

C8_Witness ==
    /\ twice # NotYet
    /\ twice = once
    /\ once.clean # text
    /\ once.blob # once.clean
    /\ once.blob # <<>>

Fields == {"match", "score", "overs", "status"}

WellFormedRecord(r) ==
    /\ DOMAIN r = Fields
    /\ \A f \in Fields : r[f] \in Seq(Char)
    /\ strip(r.match) # <<>>

\* C9: every record _split_live_blob_to_matches returns, and every record of
\* a 200 response, has exactly the fields match, score, overs and status, each
\* a string (the empty string when nothing was found), and a match that is
\* not empty after trimming.
C9_RecordsWellFormed ==
    \A r \in Range(cleaned) \cup Range(all_items) \cup Range(final) \cup Range(response.items) :
        WellFormedRecord(r)

C9_Witness ==
    /\ pc = "done"
    /\ response.code = 200
    /\ \E r \in Range(response.items) : r.overs = <<>> /\ r.status = <<>> /\ r.score # <<>>

RECURSIVE CountOccurrences(_, _)
\* how many occurrences of pat str.replace finds in s
CountOccurrences(s, pat) ==
    LET i == find(s, pat)
    IN  IF i = 0 THEN 0
        ELSE 1 + CountOccurrences(SubSeq(s, i + Len(pat), Len(s)), pat)

\* the detail fragment the r-th record of the blob came from
ChunkOf(r) == clean_text(parts[NthPaired(parts, partIdx - 1, r)])

\* C10 as amended: every occurrence of a non-empty score in the detail fragment
\* is removed, so the status is shorter than the fragment by at least the
\* length of the score times the number of its occurrences.
C10_EveryOccurrenceRemoved ==
    \A r \in 1..Len(results) :
        Truthy(results[r].score) =>
            Len(results[r].status)
              + CountOccurrences(ChunkOf(r), results[r].score) * Len(results[r].score)
                <= Len(ChunkOf(r))

C10_Witness ==
    \E r \in 1..Len(results) :
        /\ Truthy(results[r].score)
        /\ CountOccurrences(ChunkOf(r), results[r].score) >= 2
        /\ ~contains(results[r].status, results[r].score)

\* C10 as stated: only the first occurrence of a non-empty score is removed,
\* a later one stays in the status.
C10_OnlyFirstRemoved ==
    \A r \in 1..Len(results) :
        Truthy(results[r].score) =>
            results[r].status
              = status_first_only(ChunkOf(r), results[r].score, results[r].overs)

====
